---- MODULE Spec2Model ----
(***************************************************************************)
(* Model of the file searcher of src/src/main.rs: the session thread that  *)
(* search_files spawns (count pass, parallel search pass, completion), the *)
(* archive inspection of search_in_zip, the extraction lookup of open_file *)
(* and the presentation thread's frame (update), with the mutexes that are *)
(* kept across more than one statement.                                    *)
(*                                                                         *)
(* Strings are sequences of one-character strings, so that to_lowercase,   *)
(* contains, replace, split and trim are computed and not assumed.         *)
(***************************************************************************)
EXTENDS Integers, Sequences, FiniteSets, TLC

(***************************************************************************)
(* Bounds of the model.                                                    *)
(***************************************************************************)
MaxSessions == 2
NWorkers == 2
MaxNameLen == 2
MaxQueryLen == 2

(***************************************************************************)
(* Program constants.                                                      *)
(***************************************************************************)
StatusBatch == 1000

Sessions == 1..MaxSessions
Workers == 1..NWorkers

(***************************************************************************)
(* Strings.                                                                *)
(***************************************************************************)
Chars(s) == [i \in 1..Len(s) |-> SubSeq(s, i, i)]

UpperCase == Chars("ABCDEFGHIJKLMNOPQRSTUVWXYZ")
LowerCase == Chars("abcdefghijklmnopqrstuvwxyz")

\* char::to_lowercase on the ASCII letters; every other character is kept
LowerChar(c) ==
    IF \E i \in 1..26 : UpperCase[i] = c
    THEN LowerCase[CHOOSE i \in 1..26 : UpperCase[i] = c]
    ELSE c

\* str::to_lowercase
to_lowercase(s) == [i \in 1..Len(s) |-> LowerChar(s[i])]

\* str::contains with a string pattern
contains(s, q) ==
    \E i \in 0..(Len(s) - Len(q)) : SubSeq(s, i + 1, i + Len(q)) = q

\* str::replace("\\", "/")
replace_backslash(s) == [i \in 1..Len(s) |-> IF s[i] = "\\" THEN "/" ELSE s[i]]

\* str::split(':').last().unwrap(): what follows the last ':' (all of s if none)
split_last(s) ==
    LET cols == {i \in 1..Len(s) : s[i] = ":"}
    IN  IF cols = {} THEN s
        ELSE LET k == CHOOSE i \in cols : \A j \in cols : j <= i
             IN  SubSeq(s, k + 1, Len(s))

\* str::trim: leading and trailing white space removed
trim(s) ==
    LET keep == {i \in 1..Len(s) : s[i] # " "}
    IN  IF keep = {} THEN <<>>
        ELSE LET lo == CHOOSE i \in keep : \A j \in keep : i <= j
                 hi == CHOOSE i \in keep : \A j \in keep : j <= i
             IN  SubSeq(s, lo, hi)

\* Path::extension: what follows the last '.' of the file name; none when the
\* name has no '.' or only a leading one
NoExt == <<"<none>">>

extension(name) ==
    LET dots == {i \in 2..Len(name) : name[i] = "."}
    IN  IF dots = {} THEN NoExt
        ELSE LET k == CHOOSE i \in dots : \A j \in dots : j <= i
             IN  SubSeq(name, k + 1, Len(name))

\* Path::join followed by display()
join(dir, name) == dir \o <<"/">> \o name

(***************************************************************************)
(* File systems.  A node is a directory, a regular file or a symbolic     *)
(* link (target 0: a broken link).  readable: read_dir (directory) or      *)
(* File::open (file) succeeds.  archive: how ZipArchive::new reads the     *)
(* file, a member with ok = FALSE being one that by_index cannot read.     *)
(***************************************************************************)
NoArchive == [valid |-> FALSE, members |-> <<>>]

Dir(n, ch) == [name |-> Chars(n), kind |-> "dir", children |-> ch, target |-> 0,
               readable |-> TRUE, archive |-> NoArchive]
LockedDir(n, ch) == [Dir(n, ch) EXCEPT !.readable = FALSE]
File(n) == [name |-> Chars(n), kind |-> "file", children |-> <<>>, target |-> 0,
            readable |-> TRUE, archive |-> NoArchive]
Zip(n, ms) == [File(n) EXCEPT !.archive = [valid |-> TRUE, members |-> ms]]
Link(n, t) == [name |-> Chars(n), kind |-> "link", children |-> <<>>, target |-> t,
               readable |-> TRUE, archive |-> NoArchive]
\* a file that ZipArchive::new rejects, and an archive File::open cannot open
BrokenZip(n, ms) == [File(n) EXCEPT !.archive = [valid |-> FALSE, members |-> ms]]
LockedZip(n, ms) == [Zip(n, ms) EXCEPT !.readable = FALSE]
Member(n, d) == [name |-> Chars(n), ok |-> TRUE, data |-> d]
BadMember(n) == [name |-> Chars(n), ok |-> FALSE, data |-> "?"]

\* Scenario A of the spec: three regular files
FsReports ==
    <<Dir("dir", <<2, 3, 4>>), File("report.txt"), File("Report_final.txt"),
      File("notes.md")>>

\* Two archives with equivalent logical paths stored with either separator, a
\* member that cannot be read, and a file that is no container
FsZips ==
    <<Dir("z", <<2, 3, 4>>),
      Zip("u.zip", <<Member("a/b.txt", "d1"), BadMember("b2")>>),
      Zip("w.zip", <<Member("a\\B.txt", "d2")>>),
      File("b.zip")>>

\* An archive whose member names hold ':' and surrounding spaces
FsColon ==
    <<Dir("c", <<2>>),
      Zip("k.zip", <<Member("b", "d1"), Member("a:b", "d2"), Member(" ab ", "d3")>>)>>

\* A directory reached a second time through a symbolic link
FsLinks ==
    <<Dir("r", <<2, 4>>), Dir("d", <<3>>), File("f"), Link("s", 2)>>

\* A directory that cannot be listed, a file with the zip extension that is no
\* container, a broken link, a link that closes a cycle and an archive that
\* cannot be opened
FsLocked ==
    <<Dir("r", <<2, 3, 5, 6, 7>>), LockedDir("p", <<4>>),
      BrokenZip("q.zip", <<Member("q", "d1")>>), File("bq"),
      Link("k", 0), Link("up", 1), LockedZip("o.zip", <<Member("qq", "d2")>>)>>

\* The search directory names a single file: an archive of one member, or a
\* plain file
FsOneZip == <<Zip("k.zip", <<Member("B", "d1")>>)>>
FsOneFile == <<File("ab")>>

Scenario(f, q) == [fs |-> f, query |-> Chars(q)]

Scenarios ==
    <<Scenario(FsOneZip, "b"), Scenario(FsOneFile, "B"),
      Scenario(FsReports, "report"), Scenario(FsZips, "B"), Scenario(FsColon, "b"),
      Scenario(FsLinks, "x"), Scenario(FsLocked, "Q")>>

\* the runs in which Go may be clicked at any frame are explored on the
\* single-file trees; the runs of a user who waits for the session to end, on
\* every tree
\* A single file of every name and every query text over a few letters in
\* both cases, for the match decision; with the archives, for the other steps
Letters == {"a", "A", "b", "B"}
Texts(n) == UNION { [1..k -> Letters] : k \in 0..n }
MatchScenarios ==
    { [fs |-> <<[File("f") EXCEPT !.name = n]>>, query |-> q] :
        n \in Texts(MaxNameLen) \ {<<>>}, q \in Texts(MaxQueryLen) }
    \cup {Scenario(FsZips, "B")}

RaceScenarios == {Scenarios[1], Scenarios[2]}
AllScenarios == {Scenarios[i] : i \in 1..Len(Scenarios)}

(***************************************************************************)
(* WalkDir.  The entries an iteration yields as Ok; the errors (a broken   *)
(* or looping link when links are followed, a directory that cannot be     *)
(* listed) are what filter_map(|e| e.ok()) drops.                          *)
(***************************************************************************)
Entry(p, nm, n) == [path |-> p, name |-> nm, node |-> n]

RECURSIVE WalkDir(_, _, _, _, _, _)
WalkDir(fs, n, p, nm, follow, anc) ==
    LET node == fs[n]
        below(d) ==
            IF fs[d].readable
            THEN UNION { WalkDir(fs, fs[d].children[i], join(p, fs[fs[d].children[i]].name),
                                 fs[fs[d].children[i]].name, follow, anc \cup {d})
                         : i \in 1..Len(fs[d].children) }
            ELSE {}
    IN  CASE node.kind = "file" -> {Entry(p, nm, n)}
          [] node.kind = "dir" -> {Entry(p, nm, n)} \cup below(n)
          [] node.kind = "link" ->
                IF ~follow THEN {Entry(p, nm, n)}
                ELSE IF node.target = 0 \/ node.target \in anc THEN {}
                ELSE IF fs[node.target].kind = "dir"
                     THEN {Entry(p, nm, node.target)} \cup below(node.target)
                     ELSE {Entry(p, nm, node.target)}

\* WalkDir::new(&search_directory) and the same with follow_links(true)
CountWalk(fs) == WalkDir(fs, 1, fs[1].name, fs[1].name, FALSE, {})
SearchWalk(fs) == WalkDir(fs, 1, fs[1].name, fs[1].name, TRUE, {})

(***************************************************************************)
(* State.  The fields of FileSearcherApp, the two mutexes whose guard is   *)
(* kept across statements (results, status_message), and for every session *)
(* thread its position, its locals and its parallel workers.               *)
(***************************************************************************)
VARIABLES
    scen,               \* the directory tree and the query text of the run
    results,            \* Vec<(String, Option<PathBuf>, bool)>
    searching,
    progress,           \* f32, kept as <<numerator, denominator>>
    total_entries,
    processed_entries,
    status_message,
    search_stats,       \* Option<SearchStats>: <<>> is None, <<st>> is Some(st)
    show_stats_button,
    show_stats,
    results_lock,       \* holder of the results mutex
    status_lock,        \* holder of the status_message mutex
    pc,                 \* position of each session thread
    total_count,        \* local total_count of each session
    count_left,         \* entries the count pass has still to yield
    todo,               \* entries the search pass has still to yield
    matched_files,      \* what collect() has gathered so far
    wpc, wentry, widx, wprocessed,   \* the workers of each session
    ui_pc,              \* position of the presentation thread in update
    opened              \* outcome of the last open_file of the frame

shared == <<results, searching, progress, total_entries, processed_entries,
            status_message, search_stats, show_stats_button>>
window == <<show_stats>>
locks == <<results_lock, status_lock>>
session == <<pc, total_count, count_left, todo, matched_files>>
workers == <<wpc, wentry, widx, wprocessed>>
ui == <<ui_pc, opened>>
vars == <<scen, shared, window, locks, session, workers, ui>>

Free == -1
UiThread == 0

fs == scen.fs

\* line 54: the query text lower-cased
query == to_lowercase(scen.query)

NoEntry == Entry(<<>>, <<>>, 0)
\* no file, and the record of a frame in which nothing was opened
NoFile == ""
NotOpened == [outcome |-> "none", hit |-> 0, member |-> 0, temp_file |-> NoFile]

FilesystemHit(e) == [result |-> e.path, zip_path |-> <<>>, is_zip_entry |-> FALSE]
ArchiveHit(p, m) ==
    [result |-> p \o Chars(": ") \o m.name, zip_path |-> <<p>>, is_zip_entry |-> TRUE]

\* lines 253-259 when the to_lowercase of line 255 is forgotten
is_match_case_sensitive(e, q) == contains(e.name, q)

\* lines 253-259 (file names that are not valid Unicode, for which to_str()
\* gives None, are not among the names of the trees)
is_match(e, q) == contains(to_lowercase(e.name), q)

\* lines 262-264 when the two `if let Ok` are forgotten
ArchiveMembersUnchecked(n) == fs[n].archive.members

\* lines 262-263: the members search_in_zip iterates over; none when the file
\* cannot be opened or is not a container
ArchiveMembers(n) ==
    IF fs[n].kind = "file" /\ fs[n].readable /\ fs[n].archive.valid
    THEN fs[n].archive.members
    ELSE <<>>

\* lines 265-269: the member is read and its normalized name holds the query
MemberMatches(m, q) ==
    m.ok /\ contains(to_lowercase(replace_backslash(m.name)), q)

Start(scenarios) ==
    /\ scen \in scenarios
    /\ results = <<>>
    /\ searching = FALSE
    /\ progress = <<0, 1>>
    /\ total_entries = 0
    /\ processed_entries = 0
    /\ status_message = ""
    /\ search_stats = <<>>
    /\ show_stats_button = FALSE
    /\ show_stats = FALSE
    /\ results_lock = Free
    /\ status_lock = Free
    /\ pc = [s \in Sessions |-> "unborn"]
    /\ total_count = [s \in Sessions |-> 0]
    /\ count_left = [s \in Sessions |-> 0]
    /\ todo = [s \in Sessions |-> {}]
    /\ matched_files = [s \in Sessions |-> <<>>]
    /\ wpc = [s \in Sessions |-> [w \in Workers |-> "idle"]]
    /\ wentry = [s \in Sessions |-> [w \in Workers |-> NoEntry]]
    /\ widx = [s \in Sessions |-> [w \in Workers |-> 0]]
    /\ wprocessed = [s \in Sessions |-> [w \in Workers |-> 0]]
    /\ ui_pc = "idle"
    /\ opened = NotOpened

Init == Start(RaceScenarios)
InitSeq == Start(AllScenarios)
InitMatch == Start(MatchScenarios)

(***************************************************************************)
(* The session thread, lines 70-130.                                       *)
(***************************************************************************)
\* line 72
SetSearching(s) ==
    /\ pc[s] = "l72"
    /\ searching' = TRUE
    /\ pc' = [pc EXCEPT ![s] = "l73"]
    /\ UNCHANGED <<scen, window, results, progress, total_entries, processed_entries,
                   status_message, search_stats, show_stats_button, locks,
                   total_count, count_left, todo, matched_files, workers, ui>>

\* line 73
ResetProgress(s) ==
    /\ pc[s] = "l73"
    /\ progress' = <<0, 1>>
    /\ pc' = [pc EXCEPT ![s] = "l74"]
    /\ UNCHANGED <<scen, window, results, searching, total_entries, processed_entries,
                   status_message, search_stats, show_stats_button, locks,
                   total_count, count_left, todo, matched_files, workers, ui>>

\* line 74 left out: the hits of the earlier session stay in the collection
ClearResultsKeeping(s) ==
    /\ pc[s] = "l74"
    /\ results_lock = Free
    /\ pc' = [pc EXCEPT ![s] = "l75"]
    /\ UNCHANGED <<scen, window, results, searching, progress, total_entries,
                   processed_entries, status_message, search_stats,
                   show_stats_button, locks, total_count, count_left, todo,
                   matched_files, workers, ui>>

\* line 74
ClearResults(s) ==
    /\ pc[s] = "l74"
    /\ results_lock = Free
    /\ results' = <<>>
    /\ pc' = [pc EXCEPT ![s] = "l75"]
    /\ UNCHANGED <<scen, window, searching, progress, total_entries, processed_entries,
                   status_message, search_stats, show_stats_button, locks,
                   total_count, count_left, todo, matched_files, workers, ui>>

\* lines 75-76
ResetCounters(s) ==
    /\ pc[s] = "l75"
    /\ total_entries' = 0
    /\ processed_entries' = 0
    /\ pc' = [pc EXCEPT ![s] = "l77"]
    /\ UNCHANGED <<scen, window, results, searching, progress, status_message,
                   search_stats, show_stats_button, locks, total_count,
                   count_left, todo, matched_files, workers, ui>>

\* line 77, and the count pass of lines 79-86 is set up
StartCounting(s) ==
    /\ pc[s] = "l77"
    /\ status_lock = Free
    /\ status_message' = "Counting items"
    /\ count_left' = [count_left EXCEPT ![s] = Cardinality(CountWalk(fs))]
    /\ total_count' = [total_count EXCEPT ![s] = 0]
    /\ pc' = [pc EXCEPT ![s] = "count"]
    /\ UNCHANGED <<scen, window, results, searching, progress, total_entries,
                   processed_entries, search_stats, show_stats_button, locks,
                   todo, matched_files, workers, ui>>

\* lines 79-86: one entry of the count pass
CountEntry(s) ==
    /\ pc[s] = "count"
    /\ count_left[s] > 0
    /\ total_entries' = total_entries + 1
    /\ count_left' = [count_left EXCEPT ![s] = @ - 1]
    /\ total_count' = [total_count EXCEPT ![s] = @ + 1]
    /\ UNCHANGED <<scen, window, results, searching, progress, processed_entries,
                   status_message, search_stats, show_stats_button, locks, pc,
                   todo, matched_files, workers, ui>>

\* line 88, and the search pass of lines 90-113 is set up
StartProcessing(s) ==
    /\ pc[s] = "count"
    /\ count_left[s] = 0
    /\ status_lock = Free
    /\ status_message' = "Processing items..."
    /\ todo' = [todo EXCEPT ![s] = SearchWalk(fs)]
    /\ matched_files' = [matched_files EXCEPT ![s] = <<>>]
    /\ pc' = [pc EXCEPT ![s] = "search"]
    /\ UNCHANGED <<scen, window, results, searching, progress, total_entries,
                   processed_entries, search_stats, show_stats_button, locks,
                   total_count, count_left, workers, ui>>

\* par_bridge hands the next entry to a worker; line 96 decides whether
\* search_in_zip has members to go through
TakeEntry(s, w) ==
    /\ pc[s] = "search"
    /\ wpc[s][w] = "idle"
    /\ \E e \in todo[s] :
        /\ todo' = [todo EXCEPT ![s] = @ \ {e}]
        /\ wentry' = [wentry EXCEPT ![s][w] = e]
        /\ wpc' = [wpc EXCEPT ![s][w] =
                     IF extension(e.name) = Chars("zip") /\ ArchiveMembers(e.node) # <<>>
                     THEN "zip" ELSE "match"]
    /\ widx' = [widx EXCEPT ![s][w] = 1]
    /\ UNCHANGED <<scen, window, shared, locks, pc, total_count, count_left,
                   matched_files, wprocessed, ui>>

\* lines 264-279: one member of the archive
InspectMember(s, w) ==
    /\ wpc[s][w] = "zip"
    /\ LET ms == ArchiveMembers(wentry[s][w].node)
           m == ms[widx[s][w]]
       IN  /\ IF MemberMatches(m, query)
              THEN /\ results_lock = Free
                   /\ results' = Append(results, ArchiveHit(wentry[s][w].path, m))
              ELSE UNCHANGED results
           /\ IF widx[s][w] < Len(ms)
              THEN /\ widx' = [widx EXCEPT ![s][w] = @ + 1]
                   /\ UNCHANGED wpc
              ELSE /\ wpc' = [wpc EXCEPT ![s][w] = "match"]
                   /\ UNCHANGED widx
    /\ UNCHANGED <<scen, window, searching, progress, total_entries, processed_entries,
                   status_message, search_stats, show_stats_button, locks,
                   session, wentry, wprocessed, ui>>

\* lines 99-102; the entry goes out of scope
MatchEntry(s, w) ==
    /\ wpc[s][w] = "match"
    /\ IF is_match(wentry[s][w], query)
       THEN /\ matched_files' = [matched_files EXCEPT ![s] =
                                    Append(@, FilesystemHit(wentry[s][w]))]
            /\ wpc' = [wpc EXCEPT ![s][w] = "idle"]
            /\ UNCHANGED <<processed_entries, wprocessed>>
       ELSE /\ processed_entries' = processed_entries + 1
            /\ wprocessed' = [wprocessed EXCEPT ![s][w] = processed_entries + 1]
            /\ wpc' = [wpc EXCEPT ![s][w] = "progress"]
            /\ UNCHANGED matched_files
    /\ wentry' = [wentry EXCEPT ![s][w] = NoEntry]
    /\ widx' = [widx EXCEPT ![s][w] = 0]
    /\ UNCHANGED <<scen, window, results, searching, progress, total_entries,
                   status_message, search_stats, show_stats_button, locks, pc,
                   total_count, count_left, todo, ui>>

\* lines 103-111
StoreProgress(s, w) ==
    /\ wpc[s][w] = "progress"
    /\ progress' = <<wprocessed[s][w], total_count[s]>>
    /\ IF wprocessed[s][w] % StatusBatch = 0
       THEN /\ status_lock = Free
            /\ status_message' = "Processing items: n/m processed"
       ELSE UNCHANGED status_message
    /\ wpc' = [wpc EXCEPT ![s][w] = "idle"]
    /\ wprocessed' = [wprocessed EXCEPT ![s][w] = 0]
    /\ UNCHANGED <<scen, window, results, searching, total_entries, processed_entries,
                   search_stats, show_stats_button, locks, session, wentry,
                   widx, ui>>

\* lines 115-116: collect() has returned; the results guard is taken and kept,
\* and extend() moves matched_files into results
ExtendResults(s) ==
    /\ pc[s] = "search"
    /\ todo[s] = {}
    /\ \A w \in Workers : wpc[s][w] = "idle"
    /\ results_lock = Free
    /\ results_lock' = s
    /\ results' = results \o matched_files[s]
    /\ matched_files' = [matched_files EXCEPT ![s] = <<>>]
    /\ pc' = [pc EXCEPT ![s] = "l119"]
    /\ UNCHANGED <<scen, window, searching, progress, total_entries, processed_entries,
                   status_message, search_stats, show_stats_button, status_lock,
                   total_count, count_left, todo, workers, ui>>

\* lines 118-123 with matched_files.len() in the place of all_results.len():
\* only the filesystem hits are counted
StoreStatsOfMatchedFiles(s) ==
    /\ pc[s] = "l119"
    /\ search_stats' =
          <<[total_files |-> total_count[s],
             matched_files |->
                 Cardinality({i \in 1..Len(results) : ~results[i].is_zip_entry})]>>
    /\ pc' = [pc EXCEPT ![s] = "l126"]
    /\ UNCHANGED <<scen, window, results, searching, progress, total_entries,
                   processed_entries, status_message, show_stats_button, locks,
                   total_count, count_left, todo, matched_files, workers, ui>>

\* lines 118-123 (the elapsed time is not kept)
StoreStats(s) ==
    /\ pc[s] = "l119"
    /\ search_stats' = <<[total_files |-> total_count[s],
                          matched_files |-> Len(results)]>>
    /\ pc' = [pc EXCEPT ![s] = "l126"]
    /\ UNCHANGED <<scen, window, results, searching, progress, total_entries,
                   processed_entries, status_message, show_stats_button, locks,
                   total_count, count_left, todo, matched_files, workers, ui>>

\* line 126
ClearSearching(s) ==
    /\ pc[s] = "l126"
    /\ searching' = FALSE
    /\ pc' = [pc EXCEPT ![s] = "l127"]
    /\ UNCHANGED <<scen, window, results, progress, total_entries, processed_entries,
                   status_message, search_stats, show_stats_button, locks,
                   total_count, count_left, todo, matched_files, workers, ui>>

\* line 127
CompleteProgress(s) ==
    /\ pc[s] = "l127"
    /\ progress' = <<1, 1>>
    /\ pc' = [pc EXCEPT ![s] = "l128"]
    /\ UNCHANGED <<scen, window, results, searching, total_entries, processed_entries,
                   status_message, search_stats, show_stats_button, locks,
                   total_count, count_left, todo, matched_files, workers, ui>>

\* line 128
CompleteStatus(s) ==
    /\ pc[s] = "l128"
    /\ status_lock = Free
    /\ status_message' = "Search completed."
    /\ pc' = [pc EXCEPT ![s] = "l129"]
    /\ UNCHANGED <<scen, window, results, searching, progress, total_entries,
                   processed_entries, search_stats, show_stats_button, locks,
                   total_count, count_left, todo, matched_files, workers, ui>>

\* lines 129-130: the closure ends, its locals go out of scope and the results
\* guard is dropped
Finish(s) ==
    /\ pc[s] = "l129"
    /\ show_stats_button' = TRUE
    /\ results_lock' = Free
    /\ total_count' = [total_count EXCEPT ![s] = 0]
    /\ pc' = [pc EXCEPT ![s] = "done"]
    /\ UNCHANGED <<scen, window, results, searching, progress, total_entries,
                   processed_entries, status_message, search_stats, status_lock,
                   count_left, todo, matched_files, workers, ui>>

(***************************************************************************)
(* open_file, lines 149-250.                                               *)
(***************************************************************************)
\* lines 164 and 197
target_name(label) == replace_backslash(trim(split_last(label)))

\* the node File::open(&zip_path) opens
NodeOfPath(p) ==
    IF \E e \in SearchWalk(fs) : e.path = p
    THEN (CHOOSE e \in SearchWalk(fs) : e.path = p).node
    ELSE 0

\* lines 187-202: the index of the first member that can be read and whose
\* normalized name equals the target name; 0 when there is none
LocateMember(ms, label) ==
    LET found == {i \in 1..Len(ms) :
                    ms[i].ok /\ replace_backslash(ms[i].name) = target_name(label)}
    IN  IF found = {} THEN 0 ELSE CHOOSE i \in found : \A j \in found : i <= j

\* File::create(&extract_path) in the fresh temporary directory: the file
\* name must be non-empty and must name no directory
CanCreate(label) ==
    LET t == trim(split_last(label))
    IN  t # <<>> /\ \A i \in 1..Len(t) : t[i] \notin {"/", "\\"}

\* lines 156 and 250: temp_dir is a local of open_file, and a TempDir that
\* goes out of scope removes its directory with what was written into it
dropped_tempdir(data) == NoFile

\* what open_file leaves behind when it returns
Outcome(o, i, m, f) == [outcome |-> o, hit |-> i, member |-> m, temp_file |-> f]

\* i: the position in results of the hit that is opened; member: the archive
\* member that is extracted; temp_file: what is at extract_path once open_file
\* has returned
open_file(i, hit) ==
    IF ~hit.is_zip_entry
    THEN Outcome("launched", i, 0, NoFile)
    ELSE IF hit.zip_path = <<>>
    THEN Outcome("no_zip_path", i, 0, NoFile)
    ELSE LET n == NodeOfPath(hit.zip_path[1])
         IN  IF n = 0 \/ ArchiveMembers(n) = <<>>
             THEN Outcome("archive_unreadable", i, 0, NoFile)
             ELSE LET m == LocateMember(ArchiveMembers(n), hit.result)
                  IN  IF m = 0
                      THEN Outcome("not_found", i, 0, NoFile)
                      ELSE IF ~CanCreate(hit.result)
                      THEN Outcome("create_failed", i, m, NoFile)
                      ELSE Outcome("extracted", i, m,
                                   dropped_tempdir(ArchiveMembers(n)[m].data))

(***************************************************************************)
(* The presentation thread: one frame of update, lines 298-370.            *)
(***************************************************************************)
NextSession == Cardinality({s \in Sessions : pc[s] # "unborn"}) + 1

\* lines 305-309: when Go was clicked and the searching flag reads false,
\* search_files spawns a session thread
ClickGo ==
    IF ~searching /\ NextSession \in Sessions
    THEN pc' = [pc EXCEPT ![NextSession] = "l72"]
    ELSE UNCHANGED pc

\* lines 321-325: the statistics button, once shown, is clicked
ClickShowStats ==
    IF show_stats_button THEN show_stats' = TRUE ELSE UNCHANGED show_stats

\* lines 299-330: the frame begins, Go and the statistics button are clicked
\* or not, and the status_message guard is taken, to be kept to the end of
\* the frame (no other thread keeps that mutex across statements)
BeginFrame(go, st) ==
    /\ ui_pc = "idle"
    /\ status_lock = Free
    /\ IF go THEN ClickGo ELSE UNCHANGED pc
    /\ IF st THEN ClickShowStats ELSE UNCHANGED show_stats
    /\ status_lock' = UiThread
    /\ ui_pc' = "l340"
    /\ UNCHANGED <<scen, shared, results_lock, total_count, count_left, todo,
                   matched_files, workers, opened>>

\* the same frame of a user who clicks Go only when no session thread is alive
PatientBeginFrame(go, st) ==
    /\ go => \A s \in Sessions : pc[s] \in {"unborn", "done"}
    /\ BeginFrame(go, st)

\* line 340: the results guard is taken for the result list
LockResults ==
    /\ ui_pc = "l340"
    /\ results_lock = Free
    /\ results_lock' = UiThread
    /\ ui_pc' = "l341"
    /\ UNCHANGED <<scen, window, shared, status_lock, session, workers, opened>>

\* lines 347-349: Open is clicked on a result
ClickOpen(i) ==
    /\ ui_pc = "l341"
    /\ i \in 1..Len(results)
    /\ opened = NotOpened
    /\ opened' = open_file(i, results[i])
    /\ UNCHANGED <<scen, window, shared, locks, session, workers, ui_pc>>

\* lines 353-367: the result list is drawn and the results guard dropped; the
\* statistics window is shown when asked for and when there are statistics,
\* and may be closed; at the end of the frame the status_message guard is
\* dropped
EndFrame(close) ==
    /\ ui_pc = "l341"
    /\ results_lock' = Free
    /\ IF close /\ show_stats /\ search_stats # <<>>
       THEN show_stats' = FALSE
       ELSE UNCHANGED show_stats
    /\ status_lock' = Free
    /\ ui_pc' = "idle"
    /\ opened' = NotOpened
    /\ UNCHANGED <<scen, shared, session, workers>>

SessionStep(s) ==
    \/ SetSearching(s) \/ ResetProgress(s) \/ ClearResults(s) \/ ResetCounters(s)
    \/ StartCounting(s) \/ CountEntry(s) \/ StartProcessing(s)
    \/ ExtendResults(s) \/ StoreStats(s) \/ ClearSearching(s)
    \/ CompleteProgress(s) \/ CompleteStatus(s) \/ Finish(s)

WorkerStep(s, w) ==
    \/ TakeEntry(s, w) \/ InspectMember(s, w) \/ MatchEntry(s, w) \/ StoreProgress(s, w)

UiStep ==
    \/ \E go, st \in BOOLEAN : BeginFrame(go, st)
    \/ LockResults
    \/ \E i \in 1..Len(results) : ClickOpen(i)
    \/ \E close \in BOOLEAN : EndFrame(close)

Next ==
    \/ \E s \in Sessions : SessionStep(s)
    \/ \E s \in Sessions, w \in Workers : WorkerStep(s, w)
    \/ UiStep

Spec == Init /\ [][Next]_vars

NextSeq ==
    \/ \E s \in Sessions : SessionStep(s)
    \/ \E s \in Sessions, w \in Workers : WorkerStep(s, w)
    \/ \E go, st \in BOOLEAN : PatientBeginFrame(go, st)
    \/ LockResults
    \/ \E i \in 1..Len(results) : ClickOpen(i)
    \/ \E close \in BOOLEAN : EndFrame(close)

SpecSeq == InitSeq /\ [][NextSeq]_vars

SpecMatch == InitMatch /\ [][NextSeq]_vars
\* Scheduling: every thread that can take a step does so, a thread that is
\* waiting for a mutex gets it when the mutex is free again and again, and a
\* frame that has begun is drawn to its end
Fairness ==
    /\ \A s \in Sessions : SF_vars(SessionStep(s))
    /\ \A s \in Sessions, w \in Workers : SF_vars(WorkerStep(s, w))
    /\ WF_vars(LockResults)
    /\ WF_vars(\E close \in BOOLEAN : EndFrame(close))

SpecFair == Init /\ [][Next]_vars /\ Fairness

(***************************************************************************)
(* Phases of a session and the hits a search of the tree has to find.      *)
(***************************************************************************)
Counting(s) == pc[s] \in {"l73", "l74", "l75", "l77", "count"}
Processing(s) == pc[s] = "search"
\* between extend() and the end of the closure
Completing(s) == pc[s] \in {"l119", "l126", "l127", "l128", "l129"}
\* the statistics of the session are stored
Published(s) == pc[s] \in {"l126", "l127", "l128", "l129"}

MatchingEntries == {e \in SearchWalk(fs) : is_match(e, query)}

MatchingMembers ==
    UNION { {<<e, i>> : i \in {j \in 1..Len(ArchiveMembers(e.node)) :
                                MemberMatches(ArchiveMembers(e.node)[j], query)}}
            : e \in {v \in SearchWalk(fs) : extension(v.name) = Chars("zip")} }

Occurrences(h) == Cardinality({i \in 1..Len(results) : results[i] = h})

Expected(h) ==
    Cardinality({e \in MatchingEntries : FilesystemHit(e) = h})
    + Cardinality({p \in MatchingMembers :
                     ArchiveHit(p[1].path, ArchiveMembers(p[1].node)[p[2]]) = h})

ExactHits ==
    /\ Len(results) = Cardinality(MatchingEntries) + Cardinality(MatchingMembers)
    /\ \A i \in 1..Len(results) : Occurrences(results[i]) = Expected(results[i])

(***************************************************************************)
(* Claims.                                                                 *)
(***************************************************************************)

\* C1: at most one session is Counting or Processing at any time, however the
\* Go clicks and the spawned session threads interleave.
C1_OneActiveSession ==
    Cardinality({s \in Sessions : Counting(s) \/ Processing(s)}) <= 1

\* C2: every session that was started eventually reaches Done.
C2_EverySessionCompletes ==
    \A s \in Sessions : (pc[s] # "unborn") ~> (pc[s] = "done")

\* C3: while a session is Processing, processed_entries does not decrease and
\* does not exceed total_entries.
C3_ProcessedWithinTotal ==
    [][\A s \in Sessions :
          (pc[s] = "search" /\ pc'[s] = "search") =>
              /\ processed_entries' >= processed_entries
              /\ processed_entries' <= total_entries']_vars

\* C4: when a session completes, the Hit collection holds exactly one
\* FilesystemHit for every visited entry whose name matches and one ArchiveHit
\* for every matching member of every visited zip file, and nothing else.
C4_ExactHitsAtCompletion ==
    \A s \in Sessions : Completing(s) => ExactHits

\* C5: the Count pass is over before the Search pass processes an entry, and
\* from then until the session is Done neither total_entries nor the
\* denominator of the progress fraction changes.
C5_TotalFixedWhileProcessing ==
    [][\A s \in Sessions :
          /\ pc'[s] = "search" => count_left'[s] = 0
          /\ (Processing(s) \/ Completing(s)) => total_entries' = total_entries
          /\ ((Processing(s) \/ Completing(s)) /\ pc'[s] # "done") =>
                total_count'[s] = total_count[s]]_vars

\* C6: no statistics are present while a session is Counting or Processing.
C6_NoStatsBeforeDone ==
    (\E s \in Sessions : Counting(s) \/ Processing(s)) => search_stats = <<>>

\* C7: scenario A of the spec: for the directory with report.txt,
\* Report_final.txt and notes.md and the query "report", a completed search
\* has 2 FilesystemHits, no ArchiveHit, total_files = 3 and matched_files = 2.
C7_ScenarioA ==
    (scen.fs = FsReports /\ \E s \in Sessions : Published(s)) =>
        /\ search_stats = <<[total_files |-> 3, matched_files |-> 2]>>
        /\ Cardinality({i \in 1..Len(results) : ~results[i].is_zip_entry}) = 2
        /\ Cardinality({i \in 1..Len(results) : results[i].is_zip_entry}) = 0

\* C8: the statistics a session stores have total_files equal to the number of
\* entries its Count pass counted and matched_files equal to the number of
\* hits in the Hit collection at that moment.
C8_StatsOfSession ==
    \A s \in Sessions :
        Published(s) =>
            search_stats = <<[total_files |-> Cardinality(CountWalk(fs)),
                              matched_files |-> Len(results)]>>

C8_Witness ==
    \E s \in Sessions :
        /\ pc[s] = "l126"
        /\ \E i, j \in 1..Len(results) : results[i].is_zip_entry /\ ~results[j].is_zip_entry
        /\ search_stats # <<>>
        /\ search_stats[1].total_files > 1

\* C9: a session that runs after an earlier one has completed, same root and
\* same query, stores the same matched_files as the earlier one.
C9_SameMatchedFiles ==
    [][(search_stats # <<>> /\ search_stats' # <<>>) =>
          search_stats'[1].matched_files = search_stats[1].matched_files]_vars

C9_Witness ==
    /\ pc[1] = "done"
    /\ pc[2] = "done"
    /\ search_stats # <<>>
    /\ search_stats[1].matched_files > 1

\* C10: open_file given an ArchiveHit finds the archive member that produced
\* the hit: the member it extracts is the one whose label the hit carries.
C10_ExtractFindsProducer ==
    (opened.outcome \in {"extracted", "create_failed", "not_found"}) =>
        LET hit == results[opened.hit]
            ms == ArchiveMembers(NodeOfPath(hit.zip_path[1]))
        IN  /\ opened.member # 0
            /\ ArchiveHit(hit.zip_path[1], ms[opened.member]).result = hit.result

\* C11: for the archive with the internal entry a/b.txt and a query that is
\* part of b.txt in another letter case, the search gives the ArchiveHit of
\* that entry, and Open on that hit leaves a temporary file with the bytes of
\* the entry once open_file has returned.
C11_RoundTrip ==
    LET label == Chars("z/u.zip: a/b.txt")
    IN  /\ (scen.fs = FsZips /\ \E s \in Sessions : Completing(s)) =>
               \E i \in 1..Len(results) : results[i].result = label
        /\ (opened.outcome # "none" /\ results[opened.hit].result = label) =>
               /\ opened.outcome = "extracted"
               /\ opened.temp_file = "d1"

\* the same letter in either case
SameLetter(c, d) ==
    c = d \/ \E i \in 1..26 : {c, d} = {UpperCase[i], LowerCase[i]}

\* q occurs in n as a substring when the case of the letters is ignored
OccursIgnoringCase(n, q) ==
    \E k \in 0..(Len(n) - Len(q)) : \A i \in 1..Len(q) : SameLetter(n[k + i], q[i])

LockCycle(s) ==
    /\ ui_pc = "l340"
    /\ status_lock = UiThread
    /\ results_lock = s
    /\ pc[s] = "l128"

\* C13: the frame and the session thread never wait for each other's mutex.
C13_NoLockCycle ==
    \A s \in Sessions : ~LockCycle(s)

\* C14: every entry the search pass visits increments processed_entries once,
\* so that processed_entries equals total_entries when the traversal is over.
C14_ProcessedReachesTotal ==
    \A s \in Sessions : Completing(s) => processed_entries = total_entries

\* C15: the count pass and the search pass enumerate the same entries:
\* total_count is the number of entries the search pass is going to visit.
C15_SameEntries ==
    [][\A s \in Sessions :
          (pc[s] = "count" /\ pc'[s] = "search") =>
              total_count[s] = Cardinality(todo'[s])]_vars

\* the entry has the zip extension and cannot be opened or is no container
InspectionFails(e) ==
    /\ extension(e.name) = Chars("zip")
    /\ ~fs[e.node].readable \/ ~fs[e.node].archive.valid

\* C16: when the inspection of an entry with the zip extension fails, the
\* worker leaves the Hit collection as it is and goes on to test the name of
\* the entry; no ArchiveHit of such an entry is ever in the collection, and at
\* the end of the traversal the entry has its FilesystemHit when its name
\* matches and every other hit is there as well.
C16_FailedInspection ==
    [][\A s \in Sessions :
          /\ \A w \in Workers :
                (wpc[s][w] = "idle" /\ wpc'[s][w] # "idle"
                    /\ InspectionFails(wentry'[s][w])) =>
                    (results' = results /\ wpc'[s][w] = "match")
          /\ \A i \in 1..Len(results') :
                results'[i].is_zip_entry =>
                    \A e \in SearchWalk(fs) :
                        e.path = results'[i].zip_path[1] => ~InspectionFails(e)
          /\ Completing(s)' =>
                /\ \A e \in SearchWalk(fs) :
                      (InspectionFails(e) /\ OccursIgnoringCase(e.name, scen.query)) =>
                          \E i \in 1..Len(results') : results'[i] = FilesystemHit(e)
                /\ ExactHits']_vars

C16_Witness ==
    /\ scen.fs = FsLocked
    /\ \E s \in Sessions : Completing(s)
    /\ \E i \in 1..Len(results) : results[i].result = Chars("r/q.zip")
    /\ processed_entries = 3

\* comparison of two fractions with positive denominators
AtLeast(f, g) == f[1] * g[2] >= g[1] * f[2]

\* C17: from the start of the Processing phase until the session is Done, the
\* progress fraction a poller reads never decreases, whatever the order in
\* which the workers increment processed_entries and store the fraction.
C17_ProgressNeverDecreases ==
    [][\A s \in Sessions :
          (Processing(s) \/ Completing(s)) => AtLeast(progress', progress)]_vars

\* a session has run up to the store of line 126
HasRun(s) == pc[s] \in {"l127", "l128", "l129", "done"}

\* C18: completion is published in order.  Whenever searching is false after a
\* session ran, results holds the complete hit list of that session and
\* search_stats its statistics, and no step taken while searching is false
\* changes results.
C18_PublishedInOrder ==
    [][(searching = FALSE /\ \E s \in Sessions : HasRun(s)) =>
          /\ ExactHits
          /\ search_stats # <<>>
          /\ search_stats[1].matched_files = Len(results)
          /\ results' = results]_vars

\* the FilesystemHits of a hit list
FilesystemHits(r) == {i \in 1..Len(r) : ~r[i].is_zip_entry}

\* C19: while a session is Processing, results holds only ArchiveHits of that
\* session; the FilesystemHits are appended in one step, after every entry has
\* been visited, so every FilesystemHit comes after every ArchiveHit.
C19_FilesystemHitsLast ==
    [][/\ \A s \in Sessions :
             Processing(s) =>
                 \A i \in 1..Len(results) :
                     /\ results[i].is_zip_entry
                     /\ Occurrences(results[i]) <= Expected(results[i])
       /\ \A i, j \in 1..Len(results) :
             (i < j /\ ~results[i].is_zip_entry) => ~results[j].is_zip_entry
       /\ Cardinality(FilesystemHits(results')) > Cardinality(FilesystemHits(results)) =>
             \E s \in Sessions :
                 /\ Processing(s) /\ Completing(s)'
                 /\ todo[s] = {}
                 /\ \A w \in Workers : wpc[s][w] = "idle"
                 /\ Cardinality(FilesystemHits(results')) = Cardinality(MatchingEntries)]_vars
====
